---- MODULE Spec2Model ----
(***************************************************************************)
(* Model of TensorFlow/computer_vision/UNet3D/dataset/data_loader.py:      *)
(* the k-fold splitter cross_validation and the Dataset object with its    *)
(* five pipeline builders.  A dataset value is the record source plus the  *)
(* ordered list of tf.data operators chained on it; Elems interprets that  *)
(* list to obtain what the pipeline emits.  Every path of the listed       *)
(* directory holds one record, identified by the path's position.          *)
(***************************************************************************)
EXTENDS Integers, Sequences, FiniteSets, TLC

VARIABLES
  listdir,          \* os.listdir(data_dir): the paths, in listing order
  fold_idx,         \* constructor argument
  n_folds,          \* constructor argument
  batch_size,       \* constructor argument (self._batch_size)
  seed,             \* constructor argument (self._seed)
  params,           \* params object: worker_id, num_workers, augment
  logical_devices,  \* tf.config.list_logical_devices('HPU')
  pc,               \* "new", "constructed", or "raised" (constructor threw)
  raised,           \* exception of the constructor, NoError if none
  cv_folders,       \* cross_validation's local _folders (the chunks)
  _train,           \* self._train
  _eval,            \* self._eval
  _hpu_id,          \* self._hpu_id
  _num_hpus,        \* self._num_hpus
  call,             \* the builder called last, "none" before any call
  call_args,        \* its arguments: count, drop_remainder
  call_raised,      \* exception of that call, NoError if none
  trace,            \* steps that call executed, in order
  ds,               \* the dataset that call returned
  emitted           \* the batches that dataset emits

vars == <<listdir, fold_idx, n_folds, batch_size, seed, params, logical_devices,
          pc, raised, cv_folders, _train, _eval, _hpu_id, _num_hpus,
          call, call_args, call_raised, trace, ds, emitted>>

----------------------------------------------------------------------------
\* Bounds of the model.
MaxFiles == 3
MaxFolds == 3
MaxBatch == 2
MaxSeed == 1
MaxWorkers == 2
MaxHPU == 2
MaxCount == 3
MaxEpochs == 2
MaxN == 10
MaxCVFolds == 6

\* tf.data.experimental.AUTOTUNE
AUTOTUNE == -1

NoError == "none"
RangeError == "ValueError: Fold index has to be [0, n_folds)"
ConcatError == "ValueError: need at least one array to concatenate"
SectionsError == "ValueError: number sections must be larger than 0"
IndexError == "IndexError: list index out of range"
TrainAssert == "AssertionError: Training data not found."
EvalAssert == "AssertionError: Evaluation data not found. Did you specify --fold flag?"

----------------------------------------------------------------------------
\* Sequence helpers.
Iota(n) == [i \in 1..n |-> i]

RECURSIVE Flatten(_)
Flatten(ss) == IF ss = <<>> THEN <<>> ELSE Head(ss) \o Flatten(Tail(ss))

Elements(s) == {s[i] : i \in 1..Len(s)}

----------------------------------------------------------------------------
\* cross_validation (lines 34-40)

FoldIndexTooLarge(fi, nf) == fi < 0 \/ fi > nf

\* line 35: the range test
FoldIndexOutOfRange(fi, nf) == fi < 0 \/ fi >= nf

section_sizes_small_first(Ntotal, Nsections) ==
  [i \in 1..Nsections |->
     IF i <= Nsections - (Ntotal % Nsections)
       THEN Ntotal \div Nsections
       ELSE Ntotal \div Nsections + 1]

\* np.array_split: extras * [Neach_section + 1] + (Nsections - extras) * [Neach_section]
section_sizes(Ntotal, Nsections) ==
  [i \in 1..Nsections |->
     IF i <= Ntotal % Nsections
       THEN Ntotal \div Nsections + 1
       ELSE Ntotal \div Nsections]

RECURSIVE cumsum(_, _)
cumsum(sizes, i) == IF i = 0 THEN 0 ELSE cumsum(sizes, i - 1) + sizes[i]

\* np.array_split: div_points = ([0] + section_sizes).cumsum()
div_points(Ntotal, Nsections) ==
  [i \in 1..(Nsections + 1) |-> cumsum(section_sizes(Ntotal, Nsections), i - 1)]

\* np.array_split(x, n): sub_arys[i] = x[div_points[i] : div_points[i + 1]]
array_split(x, Nsections) ==
  LET dp == div_points(Len(x), Nsections)
  IN  [i \in 1..Nsections |-> SubSeq(x, dp[i] + 1, dp[i + 1])]

OtherFoldersRotated(folders, fi) ==
  SubSeq(folders, fi + 2, Len(folders)) \o SubSeq(folders, 1, fi)

\* line 40: _folders[:fold_idx] + _folders[fold_idx + 1:]
OtherFolders(folders, fi) ==
  SubSeq(folders, 1, fi) \o SubSeq(folders, fi + 2, Len(folders))

CVResult(err, folders, train, held) ==
  [raised |-> err, folders |-> folders, train |-> train, held_out |-> held]

\* lines 34-40.  The result carries the exception (NoError when the pair is
\* returned), the chunks, and the returned pair.
cross_validation(x, fi, nf) ==
  IF FoldIndexOutOfRange(fi, nf)
    THEN CVResult(RangeError, <<>>, <<>>, <<>>)
  ELSE IF nf <= 0
    THEN CVResult(SectionsError, <<>>, <<>>, <<>>)
  ELSE LET folders == array_split(x, nf)
           others  == OtherFolders(folders, fi)
       IN  IF others = <<>>
             THEN CVResult(ConcatError, folders, <<>>, <<>>)
           ELSE IF fi + 1 > Len(folders)
             THEN CVResult(IndexError, folders, <<>>, <<>>)
           ELSE CVResult(NoError, folders, Flatten(others), folders[fi + 1])

----------------------------------------------------------------------------
\* tf.data operators, as chained by the builders.  A dataset is
\* [kind, src, ops]: the record source and the operators applied to it.

Op(name, a, b, fns) == [op |-> name, a |-> a, b |-> b, fns |-> fns]

NoDataset == [kind |-> "none", src |-> <<>>, ops |-> <<>>]

Chain(d, o) == [d EXCEPT !.ops = Append(@, o)]

\* tf.data.TFRecordDataset(filenames=...)
TFRecordDataset(filenames) == [kind |-> "TFRecordDataset", src |-> filenames, ops |-> <<>>]

\* tf.data.Dataset.from_tensors(...): one element
from_tensors == [kind |-> "from_tensors", src |-> <<0>>, ops |-> <<>>]

shard(d, num_shards, index) == Chain(d, Op("shard", num_shards, index, <<>>))
cache(d) == Chain(d, Op("cache", 0, 0, <<>>))
shuffle(d, buffer_size, sd) == Chain(d, Op("shuffle", buffer_size, sd, <<>>))
repeat(d, count) == Chain(d, Op("repeat", count, 0, <<>>))
map(d, fn, transforms, num_parallel_calls) ==
  Chain(d, Op("map", num_parallel_calls, 0, <<fn>> \o transforms))

batch_always_drop(d, bs, drop_remainder) == Chain(d, Op("batch", bs, 1, <<>>))

batch(d, bs, drop_remainder) ==
  Chain(d, Op("batch", bs, IF drop_remainder THEN 1 ELSE 0, <<>>))

prefetch_host_only(d, buffer_size, devices) ==
  Chain(d, Op("prefetch", buffer_size, 0, <<>>))

\* Dataset.prefetch (lines 98-107)
prefetch(d, buffer_size, devices) ==
  IF Len(devices) > 0
    THEN Chain(d, Op("prefetch_to_device", devices[1], 0, <<>>))
    ELSE Chain(d, Op("prefetch", buffer_size, 0, <<>>))

OpNames(d) == [i \in 1..Len(d.ops) |-> d.ops[i].op]

----------------------------------------------------------------------------
\* What a dataset emits.

\* the orders a shuffle buffer of the given size can produce from n elements:
\* the k-th output is drawn from the first k + buffer_size - 1 inputs
ShuffleOrders(n, buffer_size) ==
  {p \in [1..n -> 1..n] :
     /\ \A i, j \in 1..n : i # j => p[i] # p[j]
     /\ \A k \in 1..n : p[k] <= k + buffer_size - 1}

\* the number of passes the model takes through repeat(count)
Passes(count) == IF count < 0 THEN MaxEpochs ELSE count

RECURSIVE Batches(_, _, _)
Batches(s, bs, keep_partial) ==
  IF Len(s) = 0 THEN <<>>
  ELSE IF Len(s) < bs THEN (IF keep_partial THEN <<s>> ELSE <<>>)
  ELSE <<SubSeq(s, 1, bs)>> \o Batches(SubSeq(s, bs + 1, Len(s)), bs, keep_partial)

\* an endless repeat among the first i operators
Endless(d, i) == \E k \in 1..i : d.ops[k].op = "repeat" /\ d.ops[k].a < 0

RECURSIVE Elems(_, _, _, _)
RECURSIVE Rounds(_, _, _, _)

\* the elements the first i operators of d produce in pass number it, the
\* shuffle of pass k drawing the order oracle[k]
Elems(d, i, it, oracle) ==
  IF i = 0 THEN d.src
  ELSE LET o == d.ops[i] IN
    IF o.op = "repeat" THEN Rounds(d, i - 1, Passes(o.a), oracle)
    ELSE LET prev == Elems(d, i - 1, it, oracle) IN
      CASE o.op = "shard" ->
             LET keep == {k \in 1..Len(prev) : o.a > 0 /\ (k - 1) % o.a = o.b}
                 F[k \in 0..Len(prev)] ==
                   IF k = 0 THEN <<>>
                   ELSE IF k \in keep THEN Append(F[k - 1], prev[k]) ELSE F[k - 1]
             IN  F[Len(prev)]
        [] o.op = "shuffle" ->
             IF it \in DOMAIN oracle /\ DOMAIN oracle[it] = 1..Len(prev)
               THEN [k \in 1..Len(prev) |-> prev[oracle[it][k]]]
               ELSE prev
        [] o.op = "batch" ->
             \* the last, partial batch of a finite stream is kept unless
             \* drop_remainder; an endless stream has none
             Batches(prev, o.a, o.b = 0 /\ ~Endless(d, i - 1))
        [] OTHER -> prev

Rounds(d, i, n, oracle) ==
  IF n <= 0 THEN <<>> ELSE Rounds(d, i, n - 1, oracle) \o Elems(d, i, n, oracle)

Emit(d, oracle) == Elems(d, Len(d.ops), 1, oracle)

\* index of the first operator named name, 0 if none
OpIndex(d, name) ==
  IF \E k \in 1..Len(d.ops) : d.ops[k].op = name
    THEN CHOOSE k \in 1..Len(d.ops) :
           d.ops[k].op = name /\ \A j \in 1..(k - 1) : d.ops[j].op # name
    ELSE 0

\* the shuffle orders a dataset may draw, one per pass
Oracles(d) ==
  LET k == OpIndex(d, "shuffle") IN
  IF k = 0 THEN {<<>>}
  ELSE [1..MaxEpochs -> ShuffleOrders(Len(Elems(d, k - 1, 1, <<>>)), d.ops[k].a)]

----------------------------------------------------------------------------
\* The builders (lines 109-222).  Each yields the exception it raises (NoError
\* if it returns), the steps it executed in order, and the dataset returned.

Built(err, steps, d) == [raised |-> err, trace |-> steps, ds |-> d]

TrainTransformsBrightnessFirst(augment) ==
  << "RandomCrop3D((128, 128, 128))",
     IF augment THEN "RandomHorizontalFlip()" ELSE "None",
     "Cast(dtype=tf.float32)",
     IF augment THEN "RandomBrightnessCorrection()" ELSE "None",
     "NormalizeImages()",
     "OneHotLabels(n_classes=4)" >>

\* lines 121-128: the transforms list of train_fn, None entries included
TrainTransforms(augment) ==
  << "RandomCrop3D((128, 128, 128))",
     IF augment THEN "RandomHorizontalFlip()" ELSE "None",
     "Cast(dtype=tf.float32)",
     "NormalizeImages()",
     IF augment THEN "RandomBrightnessCorrection()" ELSE "None",
     "OneHotLabels(n_classes=4)" >>

\* lines 147-153
EvalTransforms ==
  << "CenterCrop((224, 224, 155))", "Cast(dtype=tf.float32)", "NormalizeImages()",
     "OneHotLabels(n_classes=4)", "PadXYZ()" >>

\* lines 170-175
TestTransforms ==
  << "CenterCrop((224, 224, 155))", "Cast(dtype=tf.float32)", "NormalizeImages()",
     "PadXYZ((224, 224, 160))" >>

\* lines 195-203
SynthTransforms(augment) == <<"Cast(dtype=tf.uint8)">> \o TrainTransforms(augment)

train_records_cache_first(d, num_hpus, hpu_id, bs, sd) ==
  repeat(shuffle(shard(cache(d), num_hpus, hpu_id), bs * 8, sd), -1)

\* lines 114-117: shard, cache, shuffle, repeat
train_records(d, num_hpus, hpu_id, bs, sd) ==
  repeat(shuffle(cache(shard(d, num_hpus, hpu_id)), bs * 8, sd), -1)

\* lines 109-138
train_fn(train, num_hpus, hpu_id, bs, sd, augment, devices) ==
  IF ~(Len(train) > 0)
    THEN Built(TrainAssert, <<"assert">>, NoDataset)
  ELSE LET d0 == TFRecordDataset(train)
           d1 == train_records(d0, num_hpus, hpu_id, bs, sd)
           d2 == map(d1, "parse", <<>>, AUTOTUNE)
           d3 == map(d2, "apply_transforms", TrainTransforms(augment), AUTOTUNE)
           d4 == batch(d3, bs, TRUE)
           d5 == prefetch(d4, AUTOTUNE, devices)
       IN  Built(NoError, <<"assert", d0.kind>> \o OpNames(d5), d5)

\* lines 140-161
eval_fn(eval, bs, devices) ==
  LET d0 == TFRecordDataset(eval) IN
  IF ~(Len(eval) > 0)
    THEN Built(EvalAssert, <<d0.kind, "assert">>, NoDataset)
  ELSE LET d1 == cache(d0)
           d2 == map(d1, "parse", <<>>, AUTOTUNE)
           d3 == map(d2, "apply_transforms", EvalTransforms, AUTOTUNE)
           d4 == batch(d3, bs, FALSE)
           d5 == prefetch(d4, AUTOTUNE, devices)
       IN  Built(NoError, <<d0.kind, "assert">> \o OpNames(d5), d5)

\* lines 163-183
test_fn(eval, bs, count, drop_remainder, devices) ==
  LET d0 == TFRecordDataset(eval) IN
  IF ~(Len(eval) > 0)
    THEN Built(EvalAssert, <<d0.kind, "assert">>, NoDataset)
  ELSE LET d1 == repeat(d0, count)
           d2 == map(d1, "parse_x", <<>>, AUTOTUNE)
           d3 == map(d2, "apply_test_transforms", TestTransforms, AUTOTUNE)
           d4 == batch(d3, bs, drop_remainder)
           d5 == prefetch(d4, AUTOTUNE, devices)
       IN  Built(NoError, <<d0.kind, "assert">> \o OpNames(d5), d5)

\* lines 185-210
synth_train_fn(bs, augment, devices) ==
  LET d0 == from_tensors
      d1 == repeat(d0, -1)
      d2 == map(d1, "apply_transforms", SynthTransforms(augment), 1)
      d3 == batch(d2, bs, FALSE)
      d4 == prefetch(d3, bs, devices)
  IN  Built(NoError, <<d0.kind>> \o OpNames(d4), d4)

\* lines 212-222
synth_predict_fn(bs, count, devices) ==
  LET d0 == from_tensors
      d1 == repeat(d0, count)
      d2 == batch(d1, bs, FALSE)
      d3 == prefetch(d2, AUTOTUNE, devices)
  IN  Built(NoError, <<d0.kind>> \o OpNames(d3), d3)

----------------------------------------------------------------------------
\* The state machine.

\* params.worker_id / params.num_workers: 0 stands for an unset (falsy) value
Workers ==
  {w \in [worker_id : 0..MaxWorkers, num_workers : 0..MaxWorkers] :
     w.worker_id < (IF w.num_workers > 0 THEN w.num_workers ELSE 1)}

Params ==
  {[worker_id |-> w.worker_id, num_workers |-> w.num_workers, augment |-> a] :
     w \in Workers, a \in BOOLEAN}

NoArgs == [count |-> 0, drop_remainder |-> FALSE]

Fresh ==
  /\ pc = "new"
  /\ raised = NoError
  /\ cv_folders = <<>>
  /\ _train = <<>>
  /\ _eval = <<>>
  /\ _hpu_id = 0
  /\ _num_hpus = 0
  /\ call = "none"
  /\ call_args = NoArgs
  /\ call_raised = NoError
  /\ trace = <<>>
  /\ ds = NoDataset
  /\ emitted = <<>>

Init ==
  /\ listdir \in {Iota(n) : n \in 0..MaxFiles}
  /\ n_folds \in 0..MaxFolds
  /\ fold_idx \in -1..MaxFolds
  /\ batch_size \in 1..MaxBatch
  /\ seed \in 0..MaxSeed
  /\ params \in Params
  /\ logical_devices \in {[i \in 1..n |-> i - 1] : n \in 0..MaxHPU}
  /\ Fresh

\* the inputs of cross_validation alone, the other arguments at their defaults
InitCV ==
  /\ listdir \in {Iota(n) : n \in 0..MaxN}
  /\ n_folds \in 0..MaxCVFolds
  /\ fold_idx \in -1..(MaxCVFolds + 1)
  /\ batch_size = 2
  /\ seed = 0
  /\ params = [worker_id |-> 0, num_workers |-> 0, augment |-> FALSE]
  /\ logical_devices = <<>>
  /\ Fresh

inputs == <<listdir, fold_idx, n_folds, batch_size, seed, params, logical_devices>>
object == <<pc, raised, cv_folders, _train, _eval, _hpu_id, _num_hpus>>

\* Dataset.__init__ (lines 44-58)
DatasetInit ==
  /\ pc = "new"
  /\ LET r == cross_validation(listdir, fold_idx, n_folds) IN
       /\ raised' = r.raised
       /\ cv_folders' = r.folders
       /\ IF r.raised = NoError
            THEN /\ pc' = "constructed"
                 /\ _train' = r.train
                 /\ _eval' = r.held_out
                 /\ _hpu_id' = (IF params.worker_id # 0 THEN params.worker_id ELSE 0)
                 /\ _num_hpus' = (IF params.num_workers # 0 THEN params.num_workers ELSE 1)
            ELSE /\ pc' = "raised"
                 /\ UNCHANGED <<_train, _eval, _hpu_id, _num_hpus>>
  /\ UNCHANGED <<inputs, call, call_args, call_raised, trace, ds, emitted>>

\* A builder reads the object and leaves it unchanged, so what a call returns
\* does not depend on earlier calls: a behaviour follows one call.
Callable == pc = "constructed" /\ call = "none"

Returned(name, args, b, oracle) ==
  /\ call' = name
  /\ call_args' = args
  /\ call_raised' = b.raised
  /\ trace' = b.trace
  /\ ds' = b.ds
  /\ emitted' = (IF b.raised = NoError THEN Emit(b.ds, oracle) ELSE <<>>)
  /\ UNCHANGED <<inputs, object>>

TrainFn ==
  /\ Callable
  /\ LET b == train_fn(_train, _num_hpus, _hpu_id, batch_size, seed, params.augment,
                       logical_devices)
     IN  \E oracle \in Oracles(b.ds) : Returned("train_fn", NoArgs, b, oracle)

EvalFn ==
  /\ Callable
  /\ Returned("eval_fn", NoArgs, eval_fn(_eval, batch_size, logical_devices), <<>>)

TestFn ==
  /\ Callable
  /\ \E count \in -1..MaxCount, drop_remainder \in BOOLEAN :
       Returned("test_fn", [count |-> count, drop_remainder |-> drop_remainder],
                test_fn(_eval, batch_size, count, drop_remainder, logical_devices), <<>>)

SynthTrainFn ==
  /\ Callable
  /\ Returned("synth_train_fn", NoArgs,
              synth_train_fn(batch_size, params.augment, logical_devices), <<>>)

SynthPredictFn ==
  /\ Callable
  /\ \E count \in -1..MaxCount :
       Returned("synth_predict_fn", [count |-> count, drop_remainder |-> FALSE],
                synth_predict_fn(batch_size, count, logical_devices), <<>>)

Next ==
  \/ DatasetInit
  \/ TrainFn
  \/ EvalFn
  \/ TestFn
  \/ SynthTrainFn
  \/ SynthPredictFn

Spec == Init /\ [][Next]_vars

NextCV == DatasetInit

SpecCV == InitCV /\ [][NextCV]_vars

----------------------------------------------------------------------------
\* Properties.

InRange == 0 <= fold_idx /\ fold_idx < n_folds

N == Len(listdir)

\* s, count times over
RECURSIVE Times(_, _)
Times(s, count) == IF count <= 0 THEN <<>> ELSE s \o Times(s, count - 1)

\* the elements of s at the positions index, index + num, index + 2 num, ...
EveryNth(s, num, index) ==
  LET cnt == IF Len(s) > index THEN (Len(s) - index + num - 1) \div num ELSE 0
  IN  [k \in 1..cnt |-> s[(k - 1) * num + index + 1]]

\* the entries of a transforms list that are not None
ActiveSteps(ts) == SelectSeq(ts, LAMBDA t : t # "None")

IsPrefetch(o) == o.op \in {"prefetch", "prefetch_to_device"}

LastOp == ds.ops[Len(ds.ops)]

BuiltOk(name) == call = name /\ call_raised = NoError

\* every batch but the last holds bs elements, the last between 1 and bs
BatchShape(bs) ==
  \A i \in 1..Len(emitted) :
    /\ Len(emitted[i]) >= 1
    /\ Len(emitted[i]) <= bs
    /\ i < Len(emitted) => Len(emitted[i]) = bs

\* C1: for every n_folds >= 1 and 0 <= fold_idx < n_folds, cross_validation
\* returns a pair (train, held_out) whose sizes add up to N, which share no
\* element, and whose union is the input.
C1_ReturnsPartition ==
  (pc # "new" /\ n_folds >= 1 /\ InRange) =>
    /\ pc = "constructed"
    /\ raised = NoError
    /\ Len(_eval) + Len(_train) = N
    /\ Elements(_eval) \cap Elements(_train) = {}
    /\ Elements(_eval) \cup Elements(_train) = Elements(listdir)

\* C2: a fold index outside [0, n_folds) ends in the range ValueError and no
\* pair is returned, whatever N; a fold index inside it never raises that error.
C2_RangeError ==
  pc # "new" =>
    /\ ~InRange => /\ pc = "raised"
                   /\ raised = RangeError
                   /\ _train = <<>> /\ _eval = <<>>
    /\ InRange => raised # RangeError

C2_Witness ==
  /\ pc = "raised" /\ raised = RangeError
  /\ N = 4 /\ n_folds = 2 /\ fold_idx = 2

\* C3: the split is exactly n_folds contiguous chunks of the input in input
\* order, sizes pairwise at most one apart, larger chunks before smaller ones:
\* the first N mod n_folds chunks hold floor(N / n_folds) + 1 elements, the
\* rest floor(N / n_folds).
C3_Chunks ==
  (pc # "new" /\ InRange) =>
    /\ Len(cv_folders) = n_folds
    /\ Flatten(cv_folders) = listdir
    /\ \A i, j \in 1..n_folds :
         /\ Len(cv_folders[i]) - Len(cv_folders[j]) <= 1
         /\ i < j => Len(cv_folders[i]) >= Len(cv_folders[j])
    /\ \A i \in 1..n_folds :
         Len(cv_folders[i]) = (N \div n_folds) + (IF i <= N % n_folds THEN 1 ELSE 0)

C3_Witness ==
  /\ pc = "constructed" /\ N = 10 /\ n_folds = 3
  /\ cv_folders = << <<1, 2, 3, 4>>, <<5, 6, 7>>, <<8, 9, 10>> >>

C5_EmptySplitAssertions ==
  /\ (pc # "new" /\ n_folds = 1 /\ fold_idx = 0) => pc = "constructed"
  /\ call = "train_fn" => (call_raised = TrainAssert <=> Len(_train) = 0)
  /\ call \in {"eval_fn", "test_fn"} => (call_raised = EvalAssert <=> Len(_eval) = 0)

\* C6: in train_fn, eval_fn and test_fn the non-empty-split assertion is
\* evaluated before any record source or dataset operator is created.
C6_AssertFirst ==
  call \in {"train_fn", "eval_fn", "test_fn"} =>
    /\ \E i \in 1..Len(trace) : trace[i] = "assert"
    /\ \A i \in 1..Len(trace) : trace[i] = "assert" => i = 1

\* C7: train_fn chains shard (worker count, worker id), cache, shuffle (buffer
\* batch_size * 8, the seed), endless repeat, parse, the training transforms,
\* batch with the remainder dropped, prefetch, in this order and once each; so
\* the cache holds this worker's shard only, every pass through the shard is
\* shuffled on its own, and every batch holds batch_size elements.
C7_TrainStages ==
  BuiltOk("train_fn") =>
    /\ Len(ds.ops) = 8
    /\ ds.ops[1] = Op("shard", _num_hpus, _hpu_id, <<>>)
    /\ ds.ops[2] = Op("cache", 0, 0, <<>>)
    /\ ds.ops[3] = Op("shuffle", batch_size * 8, seed, <<>>)
    /\ ds.ops[4] = Op("repeat", -1, 0, <<>>)
    /\ ds.ops[5].op = "map" /\ ds.ops[5].fns = <<"parse">>
    /\ ds.ops[6].op = "map" /\ Head(ds.ops[6].fns) = "apply_transforms"
    /\ ds.ops[7] = Op("batch", batch_size, 1, <<>>)
    /\ IsPrefetch(ds.ops[8])
    /\ LET mine   == EveryNth(_train, _num_hpus, _hpu_id)
           stream == Flatten(emitted)
       IN  /\ Elems(ds, OpIndex(ds, "cache"), 1, <<>>) = mine
           /\ \A e \in 1..MaxEpochs :
                e * Len(mine) <= Len(stream) =>
                  Elements(SubSeq(stream, (e - 1) * Len(mine) + 1, e * Len(mine)))
                    = Elements(mine)
           /\ \A i \in 1..Len(emitted) : Len(emitted[i]) = batch_size

C7_Witness ==
  /\ BuiltOk("train_fn")
  /\ _num_hpus = 2 /\ _hpu_id = 1 /\ Len(_train) = 2
  /\ emitted = << <<_train[2]>>, <<_train[2]>> >>

\* a pass of the training stream that is not in shard order
C7_WitnessShuffled ==
  /\ BuiltOk("train_fn")
  /\ _num_hpus = 1 /\ batch_size = 2 /\ Len(_train) = 2
  /\ emitted = << <<_train[2], _train[1]>>, <<_train[1], _train[2]>> >>

\* C8 as stated: in every builder the last step prefetches to the first HPU
\* device if there is one, and otherwise to host memory with the automatically
\* tuned buffer size.
C8_PrefetchAutotune ==
  (call # "none" /\ call_raised = NoError) =>
    /\ \A i \in 1..Len(ds.ops) : IsPrefetch(ds.ops[i]) <=> i = Len(ds.ops)
    /\ IF Len(logical_devices) > 0
         THEN LastOp.op = "prefetch_to_device" /\ LastOp.a = logical_devices[1]
         ELSE LastOp.op = "prefetch" /\ LastOp.a = AUTOTUNE

\* C8, amended: as above, except that the host prefetch of synth_train_fn
\* takes batch_size as its buffer size.
C8_Prefetch ==
  (call # "none" /\ call_raised = NoError) =>
    /\ \A i \in 1..Len(ds.ops) : IsPrefetch(ds.ops[i]) <=> i = Len(ds.ops)
    /\ IF Len(logical_devices) > 0
         THEN LastOp.op = "prefetch_to_device" /\ LastOp.a = logical_devices[1]
         ELSE /\ LastOp.op = "prefetch"
              /\ LastOp.a = (IF call = "synth_train_fn" THEN batch_size ELSE AUTOTUNE)

C8_Witness ==
  /\ BuiltOk("synth_train_fn")
  /\ logical_devices = <<>>
  /\ LastOp = Op("prefetch", batch_size, 0, <<>>)

\* C9: the active transform steps of train_fn depend on the augment flag only:
\* crop, cast, normalize, one-hot without it; crop, flip, cast, normalize,
\* brightness, one-hot with it.
C9_ActiveTransforms ==
  BuiltOk("train_fn") =>
    ActiveSteps(Tail(ds.ops[6].fns)) =
      IF params.augment
        THEN << "RandomCrop3D((128, 128, 128))", "RandomHorizontalFlip()",
                "Cast(dtype=tf.float32)", "NormalizeImages()",
                "RandomBrightnessCorrection()", "OneHotLabels(n_classes=4)" >>
        ELSE << "RandomCrop3D((128, 128, 128))", "Cast(dtype=tf.float32)",
                "NormalizeImages()", "OneHotLabels(n_classes=4)" >>

C9_Witness ==
  /\ BuiltOk("train_fn") /\ params.augment
  /\ Len(ActiveSteps(Tail(ds.ops[6].fns))) = 6

\* C10: eval_fn chains cache, parse, transforms, batch (remainder kept),
\* prefetch, without shard or shuffle, and emits the held-out records once
\* each, in order, in ceil(E / B) batches of which only the last may be
\* short; test_fn repeats them count times and keeps or drops the last, short
\* batch as drop_remainder says.
C10_EvalAndTest ==
  /\ BuiltOk("eval_fn") =>
       /\ Len(ds.ops) = 5
       /\ ds.ops[1].op = "cache"
       /\ ds.ops[2].op = "map" /\ ds.ops[2].fns = <<"parse">>
       /\ ds.ops[3].op = "map" /\ Head(ds.ops[3].fns) = "apply_transforms"
       /\ ds.ops[4] = Op("batch", batch_size, 0, <<>>)
       /\ IsPrefetch(ds.ops[5])
       /\ Len(_eval) >= 1
       /\ Flatten(emitted) = _eval
       /\ Len(emitted) = (Len(_eval) + batch_size - 1) \div batch_size
       /\ BatchShape(batch_size)
  /\ (BuiltOk("test_fn") /\ call_args.count >= 0) =>
       LET total == call_args.count * Len(_eval)
           kept  == IF call_args.drop_remainder
                      THEN batch_size * (total \div batch_size)
                      ELSE total
       IN  /\ ds.ops[1] = Op("repeat", call_args.count, 0, <<>>)
           /\ Flatten(emitted) = SubSeq(Times(_eval, call_args.count), 1, kept)
           /\ BatchShape(batch_size)

C10_Witness ==
  /\ BuiltOk("eval_fn")
  /\ batch_size = 1 /\ _eval = <<1, 2>>
  /\ emitted = << <<1>>, <<2>> >>

\* test_fn dropping, and keeping, a last batch that is short
C10_WitnessTestDrop ==
  /\ BuiltOk("test_fn")
  /\ call_args.count = 3 /\ call_args.drop_remainder
  /\ batch_size = 2 /\ Len(_eval) = 1
  /\ Len(emitted) = 1

C10_WitnessTestKeep ==
  /\ BuiltOk("test_fn")
  /\ call_args.count = 3 /\ ~call_args.drop_remainder
  /\ batch_size = 2 /\ Len(_eval) = 1
  /\ Len(emitted) = 2 /\ Len(emitted[2]) = 1

====
